---- MODULE Spec2Model ----
(***************************************************************************)
(* Model of the two packaging scripts of snapitqr:                         *)
(*   backend/create-zips.py                       (the Bulk Packager)      *)
(*   backend/stripe-operations/create_deployment.py (Selective Packager)   *)
(*                                                                         *)
(* Python strings are sequences of one-character strings, so that `in`,    *)
(* str.endswith, str.startswith, str.replace, os.path.join and             *)
(* os.path.relpath are computed character by character.  A file-system     *)
(* path is kept as the sequence of its components; PathStr gives the       *)
(* string os.walk and os.path.join produce for it.                         *)
(***************************************************************************)
EXTENDS Naturals, Sequences, FiniteSets, Bags, TLC

VARIABLES
    fs,       \* the files on disk: path -> data
    fsdirs,   \* the directories on disk
    zips,     \* the archives on disk: path of the zip file -> bag of entries
    zipf,     \* the ZipFile objects that are open (paths)
    pc,       \* position of the running script
    i,        \* create-zips.py: index of lambda_dir in lambdas
    k,        \* create_deployment.py: index in the list of main files
    run,      \* create_deployment.py: number of the invocation
    pending,  \* os.walk: directories still to be yielded
    root,     \* os.walk: directory of the triple being processed
    files,    \* files of the triple not yet handled by `for file in files`
    visited,  \* every directory os.walk has listed
    log,      \* what was printed, in order
    exc,      \* whether an exception has been raised
    done1     \* create_deployment.py: function.zip as the first invocation left it

vars == <<fs, fsdirs, zips, zipf, pc, i, k, run, pending, root, files, visited, log, exc, done1>>

-----------------------------------------------------------------------------
(* Bounds *)

\* most files below one root (Bulk Packager) besides the example tree
MaxFiles == 2
\* most files in the working directory (Selective Packager)
MaxSelFiles == 2
\* invocations of create_lambda_package in one behaviour, beyond the first
MaxReruns == 1

-----------------------------------------------------------------------------
(* Python string operations *)

StartsWith(s, p) == Len(p) <= Len(s) /\ SubSeq(s, 1, Len(p)) = p

EndsWith(s, p) == Len(p) <= Len(s) /\ SubSeq(s, Len(s) - Len(p) + 1, Len(s)) = p

\* sub in s
Contains(sub, s) ==
    \E n \in 0..Len(s) : n + Len(sub) <= Len(s) /\ SubSeq(s, n + 1, n + Len(sub)) = sub

\* s.replace(old, new) for one-character old and new
Replace(s, old, new) == [n \in 1..Len(s) |-> IF s[n] = old THEN new ELSE s[n]]

\* os.path.join(a, b) for a relative b
Join(a, b) == a \o <<"/">> \o b

RECURSIVE PathStr(_)
PathStr(p) == IF Len(p) = 1 THEN p[1] ELSE Join(PathStr(SubSeq(p, 1, Len(p) - 1)), p[Len(p)])

\* os.path.relpath(path, start) for a path below start
RelPath(p, start) == PathStr(SubSeq(p, Len(start) + 1, Len(p)))

IsPrefix(d, p) == Len(d) <= Len(p) /\ SubSeq(p, 1, Len(d)) = d

\* proper ancestors of a path
Ancestors(p) == {SubSeq(p, 1, n) : n \in 1..(Len(p) - 1)}

\* the subsets of S of at most n elements
RECURSIVE SubsetsUpTo(_, _)
SubsetsUpTo(S, n) ==
    IF n = 0 THEN {{}}
    ELSE LET R == SubsetsUpTo(S, n - 1) IN R \cup {T \cup {x} : T \in R, x \in S}

-----------------------------------------------------------------------------
(* Names *)

S_qr         == <<"q","r","-","o","p","e","r","a","t","i","o","n","s">>
S_url        == <<"u","r","l","-","o","p","e","r","a","t","i","o","n","s">>
S_auth       == <<"a","u","t","h","-","o","p","e","r","a","t","i","o","n","s">>
S_stripe     == <<"s","t","r","i","p","e","-","o","p","e","r","a","t","i","o","n","s">>
S_authorizer == <<"a","u","t","h","o","r","i","z","e","r">>
S_snapitqr   == <<"s","n","a","p","i","t","q","r","-">>
S_zip        == <<".","z","i","p">>
S_git        == <<".","g","i","t">>
S_pycache    == <<"_","_","p","y","c","a","c","h","e","_","_">>
S_nm_cache   == <<"n","o","d","e","_","m","o","d","u","l","e","s","/",".","c","a","c","h","e">>
S_node_modules == <<"n","o","d","e","_","m","o","d","u","l","e","s">>
S_cache      == <<".","c","a","c","h","e">>
S_aws_sdk    == <<"a","w","s","-","s","d","k">>
S_lodash     == <<"l","o","d","a","s","h">>
S_a_js       == <<"a",".","j","s">>
S_a_zip      == <<"a",".","z","i","p">>
S_b_js       == <<"b",".","j","s">>
S_x_js       == <<"x",".","j","s">>
S_config     == <<"c","o","n","f","i","g">>
S_index_js   == <<"i","n","d","e","x",".","j","s">>
S_lib        == <<"l","i","b">>
S_m_pyc      == <<"m",".","p","y","c">>
S_old        == <<".","o","l","d">>

-----------------------------------------------------------------------------
(* create-zips.py *)

lambdas == <<S_qr, S_url, S_auth, S_stripe, S_authorizer>>

\* os.path.exists(path)
ExistsAlways(p) == TRUE
Exists(p) == p \in fsdirs \/ p \in DOMAIN fs

\* zip_name = f"snapitqr-{lambda_dir.replace('-', '-')}"
zip_name(lambda_dir) == S_snapitqr \o Replace(lambda_dir, "-", "-")

\* zip_path = os.path.join(lambda_dir, f"{zip_name}.zip"), as a path
zip_path(lambda_dir) == <<lambda_dir, zip_name(lambda_dir) \o S_zip>>

\* os.walk lists a directory: the names of its subdirectories and of its files
ListDirs(d) == {p[Len(d) + 1] : p \in {q \in fsdirs : IsPrefix(d, q) /\ Len(q) > Len(d)}}
ListFiles(d) == {p[Len(d) + 1] : p \in {q \in DOMAIN fs : IsPrefix(d, q) /\ Len(q) = Len(d) + 1}}

\* if zip_path in root
SkipRoot(zp, r) == Contains(PathStr(zp), PathStr(r))

\* dirs[:] = [d for d in dirs if d not in ['.git', '__pycache__', 'node_modules/.cache']]
PruneNothing(dirs) == dirs
Prune(dirs) == {d \in dirs : d \notin {S_git, S_pycache, S_nm_cache}}

\* if file.endswith('.zip')
IsZipNever(file) == FALSE
IsZip(file) == EndsWith(file, S_zip)

\* zipf.write(file_path, arcname): the entry added to the archive
Entry(file_path, arcname) == [src |-> file_path, arc |-> arcname, data |-> fs[file_path]]

\* where an exception raised inside the `with` block leaves the script
RaiseCaught == "close"
Raise == "failed"

Say(ev, d) == log' = Append(log, <<ev, d>>)

lambda_dir == lambdas[i]

\* for lambda_dir in lambdas: if not os.path.exists(lambda_dir): print; continue
SkipMissing ==
    /\ pc = "check" /\ i <= Len(lambdas)
    /\ ~Exists(<<lambda_dir>>)
    /\ Say("skipping", lambda_dir)
    /\ i' = i + 1
    /\ UNCHANGED <<fs, fsdirs, zips, zipf, pc, k, run, pending, root, files, visited, exc, done1>>

EnterRoot ==
    /\ pc = "check" /\ i <= Len(lambdas)
    /\ Exists(<<lambda_dir>>)
    /\ Say("creating", lambda_dir)
    /\ pc' = "open"
    /\ UNCHANGED <<fs, fsdirs, zips, zipf, i, k, run, pending, root, files, visited, exc, done1>>

\* with zipfile.ZipFile(zip_path, 'w', ...) as zipf, and the call of os.walk(lambda_dir).
\* Opening a file in a directory that does not exist raises FileNotFoundError.
OpenZip ==
    /\ pc = "open"
    /\ IF <<lambda_dir>> \in fsdirs
       THEN /\ fs' = [p \in DOMAIN fs \cup {zip_path(lambda_dir)} |->
                        IF p = zip_path(lambda_dir) THEN 0 ELSE fs[p]]
            /\ zips' = [z \in DOMAIN zips \cup {zip_path(lambda_dir)} |->
                        IF z = zip_path(lambda_dir) THEN EmptyBag ELSE zips[z]]
            /\ zipf' = zipf \cup {zip_path(lambda_dir)}
            /\ pending' = {<<lambda_dir>>}
            /\ pc' = "walk"
            /\ UNCHANGED exc
       ELSE /\ pc' = Raise
            /\ exc' = TRUE
            /\ UNCHANGED <<fs, zips, zipf, pending>>
    /\ UNCHANGED <<fsdirs, i, k, run, root, files, visited, log, done1>>

\* for root, dirs, files in os.walk(lambda_dir): if zip_path in root: continue
\* (dirs is left as listed, so the walk goes on below root)
WalkSkip ==
    /\ pc = "walk"
    /\ \E d \in pending :
        /\ SkipRoot(zip_path(lambda_dir), d)
        /\ visited' = visited \cup {d}
        /\ pending' = (pending \ {d}) \cup {Append(d, n) : n \in ListDirs(d)}
    /\ UNCHANGED <<fs, fsdirs, zips, zipf, pc, i, k, run, root, files, log, exc, done1>>

\* ... dirs[:] = [...]; for file in files
WalkVisit ==
    /\ pc = "walk"
    /\ \E d \in pending :
        /\ ~SkipRoot(zip_path(lambda_dir), d)
        /\ visited' = visited \cup {d}
        /\ pending' = (pending \ {d}) \cup {Append(d, n) : n \in Prune(ListDirs(d))}
        /\ root' = d
        /\ files' = ListFiles(d)
    /\ pc' = "files"
    /\ UNCHANGED <<fs, fsdirs, zips, zipf, i, k, run, log, exc, done1>>

\* if file.endswith('.zip'): continue
SkipZip ==
    /\ pc = "files"
    /\ \E file \in files :
        /\ IsZip(file)
        /\ files' = files \ {file}
    /\ UNCHANGED <<fs, fsdirs, zips, zipf, pc, i, k, run, pending, root, visited, log, exc, done1>>

\* file_path = os.path.join(root, file); arcname = os.path.relpath(file_path, lambda_dir)
\* zipf.write(file_path, arcname)
WriteFile ==
    /\ pc = "files"
    /\ \E file \in files :
        /\ ~IsZip(file)
        /\ files' = files \ {file}
        /\ LET file_path == Append(root, file)
               arcname   == RelPath(file_path, <<lambda_dir>>)
               zp        == zip_path(lambda_dir)
           IN  zips' = [zips EXCEPT ![zp] = @ (+) SetToBag({Entry(file_path, arcname)})]
    /\ UNCHANGED <<fs, fsdirs, zipf, pc, i, k, run, pending, root, visited, log, exc, done1>>

\* zipf.write raises (the source cannot be read, the archive cannot be written):
\* the with statement closes the archive and the exception leaves the script
WriteFails ==
    /\ pc = "files"
    /\ \E file \in files : ~IsZip(file)
    /\ pc' = Raise
    /\ exc' = TRUE
    /\ zipf' = zipf \ {zip_path(lambda_dir)}
    /\ UNCHANGED <<fs, fsdirs, zips, i, k, run, pending, root, files, visited, log, done1>>

\* the files of the triple are exhausted: os.walk goes on
NextTriple ==
    /\ pc = "files" /\ files = {}
    /\ pc' = "walk"
    /\ UNCHANGED <<fs, fsdirs, zips, zipf, i, k, run, pending, root, files, visited, log, exc, done1>>

\* os.walk is exhausted: the with block ends and closes the archive
EndWalk ==
    /\ pc = "walk" /\ pending = {}
    /\ zipf' = zipf \ {zip_path(lambda_dir)}
    /\ pc' = "close"
    /\ UNCHANGED <<fs, fsdirs, zips, i, k, run, pending, root, files, visited, log, exc, done1>>

\* size = os.path.getsize(zip_path); print(f"Created ..."); next lambda_dir
Created ==
    /\ pc = "close"
    /\ Say("created", lambda_dir)
    /\ i' = i + 1
    /\ pc' = "check"
    /\ UNCHANGED <<fs, fsdirs, zips, zipf, k, run, pending, root, files, visited, exc, done1>>

\* print("All ZIP files created successfully")
Finish ==
    /\ pc = "check" /\ i > Len(lambdas)
    /\ Say("all", <<>>)
    /\ pc' = "done"
    /\ UNCHANGED <<fs, fsdirs, zips, zipf, i, k, run, pending, root, files, visited, exc, done1>>

-----------------------------------------------------------------------------
(* create_deployment.py *)

S_function_zip == <<"f","u","n","c","t","i","o","n",".","z","i","p">>
S_package_json == <<"p","a","c","k","a","g","e",".","j","s","o","n">>
S_bin        == <<".","b","i","n">>
S_test       == <<"t","e","s","t">>
S_tests      == <<"t","e","s","t","s">>
S_example    == <<"e","x","a","m","p","l","e">>
S_examples   == <<"e","x","a","m","p","l","e","s">>
S_docs       == <<"d","o","c","s">>
S_md         == <<".","m","d">>
S_txt        == <<".","t","x","t">>
S_map        == <<".","m","a","p">>
S_ts         == <<".","t","s">>
S_yml        == <<".","y","m","l">>
S_yaml       == <<".","y","a","m","l">>
S_dot        == <<".">>
S_contest    == <<"c","o","n","t","e","s","t">>
S_README_md  == <<"R","E","A","D","M","E",".","m","d">>
S_npmrc      == <<".","n","p","m","r","c">>
S_a_ts       == <<"a",".","t","s">>
S_a_map      == <<"a",".","m","a","p">>
S_c_yml      == <<"c",".","y","m","l">>
S_c_yaml     == <<"c",".","y","a","m","l">>
S_n_txt      == <<"n",".","t","x","t">>
S_cli        == <<"c","l","i">>
S_gone_js    == <<"g","o","n","e",".","j","s">>

\* zip_path = 'function.zip'
function_zip == <<S_function_zip>>

\* for file in ['index.js', 'package.json']
MainFiles == <<S_index_js, S_package_json>>

\* os.remove(path), on the files and on the archives
RemoveNothing(f, p) == f
Remove(f, p) == [q \in DOMAIN f \ {p} |-> f[q]]

\* if 'aws-sdk' in root: continue
\* if any(skip in root for skip in ['.bin', 'test', 'tests', 'example', 'examples', 'docs', '.cache']): continue
SkipDirByName(r) ==
    \/ Contains(S_aws_sdk, r[Len(r)])
    \/ \E skip \in {S_bin, S_test, S_tests, S_example, S_examples, S_docs, S_cache} :
          Contains(skip, r[Len(r)])
SkipDir(r) ==
    \/ Contains(S_aws_sdk, PathStr(r))
    \/ \E skip \in {S_bin, S_test, S_tests, S_example, S_examples, S_docs, S_cache} :
          Contains(skip, PathStr(r))

\* if file.endswith(('.md', '.txt', '.map', '.ts', '.yml', '.yaml')): continue
\* if file.startswith('.'): continue
SkipFileNoDot(file) ==
    \E suffix \in {S_md, S_txt, S_map, S_ts, S_yml, S_yaml} : EndsWith(file, suffix)
SkipFile(file) ==
    \/ \E suffix \in {S_md, S_txt, S_map, S_ts, S_yml, S_yaml} : EndsWith(file, suffix)
    \/ StartsWith(file, S_dot)

\* if os.path.exists(zip_path): os.remove(zip_path)
RemoveOld ==
    /\ pc = "s_remove"
    /\ IF Exists(function_zip)
       THEN /\ fs' = Remove(fs, function_zip)
            /\ zips' = Remove(zips, function_zip)
       ELSE UNCHANGED <<fs, zips>>
    /\ pc' = "s_open"
    /\ UNCHANGED <<fsdirs, zipf, i, k, run, pending, root, files, visited, log, exc, done1>>

\* with zipfile.ZipFile(zip_path, 'w', zipfile.ZIP_DEFLATED) as zipf
OpenFunctionZip ==
    /\ pc = "s_open"
    /\ fs' = [p \in DOMAIN fs \cup {function_zip} |-> IF p = function_zip THEN 0 ELSE fs[p]]
    /\ zips' = [z \in {function_zip} |-> EmptyBag]
    /\ zipf' = zipf \cup {function_zip}
    /\ k' = 1
    /\ visited' = {}
    /\ pc' = "s_main"
    /\ UNCHANGED <<fsdirs, i, run, pending, root, files, log, exc, done1>>

\* if os.path.exists(file): zipf.write(file, file); print(f'Added: {file}')
\* (zipf.write of a file that does not exist raises FileNotFoundError)
AddMain ==
    /\ pc = "s_main" /\ k <= Len(MainFiles)
    /\ Exists(<<MainFiles[k]>>)
    /\ IF <<MainFiles[k]>> \in DOMAIN fs
       THEN /\ zips' = [zips EXCEPT ![function_zip] =
                           @ (+) SetToBag({Entry(<<MainFiles[k]>>, MainFiles[k])})]
            /\ Say("Added", MainFiles[k])
            /\ k' = k + 1
            /\ UNCHANGED <<pc, zipf, exc>>
       ELSE /\ pc' = "s_failed"
            /\ exc' = TRUE
            /\ zipf' = zipf \ {function_zip}
            /\ UNCHANGED <<zips, log, k>>
    /\ UNCHANGED <<fs, fsdirs, i, run, pending, root, files, visited, done1>>

MissingMain ==
    /\ pc = "s_main" /\ k <= Len(MainFiles)
    /\ ~Exists(<<MainFiles[k]>>)
    /\ k' = k + 1
    /\ UNCHANGED <<fs, fsdirs, zips, zipf, pc, i, run, pending, root, files, visited, log, exc, done1>>

\* if os.path.exists('node_modules'): for root, dirs, files in os.walk('node_modules')
StartWalk ==
    /\ pc = "s_main" /\ k > Len(MainFiles)
    /\ Exists(<<S_node_modules>>)
    /\ pending' = {<<S_node_modules>>}
    /\ pc' = "s_walk"
    /\ UNCHANGED <<fs, fsdirs, zips, zipf, i, k, run, root, files, visited, log, exc, done1>>

NoNodeModules ==
    /\ pc = "s_main" /\ k > Len(MainFiles)
    /\ ~Exists(<<S_node_modules>>)
    /\ pc' = "s_end"
    /\ UNCHANGED <<fs, fsdirs, zips, zipf, i, k, run, pending, root, files, visited, log, exc, done1>>

\* the two `continue` of the walk: the triple's files are not looked at; dirs is
\* not changed, so os.walk goes on into every subdirectory
SelWalkSkip ==
    /\ pc = "s_walk"
    /\ \E d \in pending :
        /\ SkipDir(d)
        /\ visited' = visited \cup {d}
        /\ pending' = (pending \ {d}) \cup {Append(d, n) : n \in ListDirs(d)}
    /\ UNCHANGED <<fs, fsdirs, zips, zipf, pc, i, k, run, root, files, log, exc, done1>>

SelWalkVisit ==
    /\ pc = "s_walk"
    /\ \E d \in pending :
        /\ ~SkipDir(d)
        /\ visited' = visited \cup {d}
        /\ pending' = (pending \ {d}) \cup {Append(d, n) : n \in ListDirs(d)}
        /\ root' = d
        /\ files' = ListFiles(d)
    /\ pc' = "s_files"
    /\ UNCHANGED <<fs, fsdirs, zips, zipf, i, k, run, log, exc, done1>>

SelSkipFile ==
    /\ pc = "s_files"
    /\ \E file \in files :
        /\ SkipFile(file)
        /\ files' = files \ {file}
    /\ UNCHANGED <<fs, fsdirs, zips, zipf, pc, i, k, run, pending, root, visited, log, exc, done1>>

\* file_path = os.path.join(root, file); arcname = file_path; zipf.write(file_path, arcname)
SelWriteFile ==
    /\ pc = "s_files"
    /\ \E file \in files :
        /\ ~SkipFile(file)
        /\ files' = files \ {file}
        /\ LET file_path == Append(root, file)
               arcname   == PathStr(file_path)
           IN  zips' = [zips EXCEPT ![function_zip] = @ (+) SetToBag({Entry(file_path, arcname)})]
    /\ UNCHANGED <<fs, fsdirs, zipf, pc, i, k, run, pending, root, visited, log, exc, done1>>

SelNextTriple ==
    /\ pc = "s_files" /\ files = {}
    /\ pc' = "s_walk"
    /\ UNCHANGED <<fs, fsdirs, zips, zipf, i, k, run, pending, root, files, visited, log, exc, done1>>

SelEndWalk ==
    /\ pc = "s_walk" /\ pending = {}
    /\ pc' = "s_end"
    /\ UNCHANGED <<fs, fsdirs, zips, zipf, i, k, run, pending, root, files, visited, log, exc, done1>>

\* the with block ends and closes the archive; the two prints
PackageCreated ==
    /\ pc = "s_end"
    /\ zipf' = zipf \ {function_zip}
    /\ Say("Deployment package created", S_function_zip)
    /\ done1' = IF run = 1 THEN zips[function_zip] ELSE done1
    /\ pc' = "s_done"
    /\ UNCHANGED <<fs, fsdirs, zips, i, k, run, pending, root, files, visited, exc>>

\* if __name__ == '__main__': create_lambda_package(), once more on the tree as it is
RunAgain ==
    /\ pc = "s_done" /\ run <= MaxReruns
    /\ run' = run + 1
    /\ pc' = "s_remove"
    /\ UNCHANGED <<fs, fsdirs, zips, zipf, i, k, pending, root, files, visited, log, exc, done1>>

-----------------------------------------------------------------------------
(* The trees the Bulk Packager is run on: every root that is present holds  *)
(* the same choice of files, taken from the paths below (relative to it).   *)

BulkRel(r) ==
    { <<S_a_js>>,
      <<S_a_zip>>,
      <<S_git, S_config>>,
      <<S_node_modules, S_aws_sdk, S_index_js>>,
      <<S_node_modules, S_lodash, S_index_js>>,
      <<S_node_modules, S_cache, S_x_js>>,
      <<S_lib, S_pycache, S_m_pyc>>,
      <<zip_name(r) \o S_zip \o S_old, S_b_js>>,
      <<zip_name(r) \o S_zip \o S_old, S_git, S_config>> }

\* the example tree of the specification
SampleRel ==
    { <<S_a_js>>,
      <<S_a_zip>>,
      <<S_git, S_config>>,
      <<S_node_modules, S_aws_sdk, S_index_js>>,
      <<S_node_modules, S_lodash, S_index_js>> }

\* choices of relative paths: a tree is the image of a choice under BulkRel
BulkTrees == SubsetsUpTo(BulkRel(<<"R">>), MaxFiles) \cup {SampleRel}

\* the relative paths of choice T below root r
Instantiate(T, r) ==
    {rel \in BulkRel(r) :
        \E t \in T : \/ t = rel
                     \/ /\ Len(t) = Len(rel)
                        /\ t[1] = zip_name(<<"R">>) \o S_zip \o S_old
                        /\ rel[1] = zip_name(r) \o S_zip \o S_old
                        /\ SubSeq(t, 2, Len(t)) = SubSeq(rel, 2, Len(rel))}

Roots == {lambdas[n] : n \in 1..Len(lambdas)}

InitBulk ==
    \E P \in SUBSET Roots, T \in BulkTrees :
        LET paths == UNION {{<<r>> \o rel : rel \in Instantiate(T, r)} : r \in P}
        IN  /\ fs = [p \in paths |-> 1]
            /\ fsdirs = {<<r>> : r \in P} \cup UNION {Ancestors(p) : p \in paths}
            /\ zips = <<>>
            /\ zipf = {}
            /\ pc = "check"
            /\ i = 1
            /\ k = 1
            /\ run = 1
            /\ pending = {}
            /\ root = <<>>
            /\ files = {}
            /\ visited = {}
            /\ log = <<>>
            /\ exc = FALSE
            /\ done1 = <<>>

NextBulk ==
    \/ SkipMissing
    \/ EnterRoot
    \/ OpenZip
    \/ WalkSkip
    \/ WalkVisit
    \/ SkipZip
    \/ WriteFile
    \/ WriteFails
    \/ NextTriple
    \/ EndWalk
    \/ Created
    \/ Finish

-----------------------------------------------------------------------------
(* The working directories the Selective Packager is run in *)

SelPaths ==
    { <<S_index_js>>,
      <<S_package_json>>,
      <<S_a_js>>,
      <<S_node_modules, S_x_js>>,
      <<S_node_modules, S_npmrc>>,
      <<S_node_modules, S_lodash, S_index_js>>,
      <<S_node_modules, S_lodash, S_README_md>>,
      <<S_node_modules, S_lodash, S_n_txt>>,
      <<S_node_modules, S_lodash, S_a_map>>,
      <<S_node_modules, S_lodash, S_a_ts>>,
      <<S_node_modules, S_lodash, S_c_yml>>,
      <<S_node_modules, S_lodash, S_c_yaml>>,
      <<S_node_modules, S_lodash, S_lib, S_index_js>>,
      <<S_node_modules, S_lodash, S_tests, S_x_js>>,
      <<S_node_modules, S_lodash, S_examples, S_x_js>>,
      <<S_node_modules, S_lodash, S_docs, S_x_js>>,
      <<S_node_modules, S_cache, S_x_js>>,
      <<S_node_modules, S_bin, S_cli>>,
      <<S_node_modules, S_contest, S_index_js>>,
      <<S_node_modules, S_aws_sdk, S_index_js>>,
      <<S_node_modules, S_aws_sdk, S_lib, S_index_js>> }

\* what an older function.zip may hold: entries of files as they were, or are no more
OldArchives ==
    { EmptyBag,
      SetToBag({ [src |-> <<S_index_js>>, arc |-> S_index_js, data |-> 0],
                 [src |-> <<S_gone_js>>, arc |-> S_gone_js, data |-> 0] }) }

InitSel ==
    \E T \in SubsetsUpTo(SelPaths, MaxSelFiles), hasNM \in BOOLEAN,
       old \in {<<>>} \cup {<<b>> : b \in OldArchives} :
        /\ fs = [p \in T \cup (IF old = <<>> THEN {} ELSE {function_zip}) |->
                    IF p = function_zip THEN 0 ELSE 1]
        /\ fsdirs = UNION {Ancestors(p) : p \in T}
                        \cup (IF hasNM THEN {<<S_node_modules>>} ELSE {})
        /\ zips = IF old = <<>> THEN <<>> ELSE [z \in {function_zip} |-> old[1]]
        /\ zipf = {}
        /\ pc = "s_remove"
        /\ i = 1
        /\ k = 1
        /\ run = 1
        /\ pending = {}
        /\ root = <<>>
        /\ files = {}
        /\ visited = {}
        /\ log = <<>>
        /\ exc = FALSE
        /\ done1 = <<>>

NextSel ==
    \/ RemoveOld
    \/ OpenFunctionZip
    \/ AddMain
    \/ MissingMain
    \/ StartWalk
    \/ NoNodeModules
    \/ SelWalkSkip
    \/ SelWalkVisit
    \/ SelSkipFile
    \/ SelWriteFile
    \/ SelNextTriple
    \/ SelEndWalk
    \/ PackageCreated
    \/ RunAgain

-----------------------------------------------------------------------------

Init == InitBulk \/ InitSel

Next == NextBulk \/ NextSel

Spec == Init /\ [][Next]_vars

-----------------------------------------------------------------------------
(* Properties *)

InBulk == pc \in {"check", "open", "walk", "files", "close", "done", "failed"}
InSel == ~InBulk

Entries(z) == BagToSet(zips[z])

Printed(ev, d) == \E n \in 1..Len(log) : log[n] = <<ev, d>>

\* the files below root directory r, the root's own archive file apart
FilesBelow(r) == {p \in DOMAIN fs : IsPrefix(<<r>>, p) /\ p # zip_path(r)}

\* C1: no archive, whether being written or finished, holds an entry whose source
\* is the archive's own file
SelfExclusion ==
    \A z \in DOMAIN zips : \A e \in Entries(z) : e.src # z

\* a root's archive is finished and has entries, and its file lies in the root walked
SelfExclusionWitness ==
    /\ pc = "close"
    /\ zip_path(lambda_dir) \in DOMAIN fs
    /\ zip_path(lambda_dir)[2] \in ListFiles(<<lambda_dir>>)
    /\ zips[zip_path(lambda_dir)] # EmptyBag

\* C2: a root that is absent gets no archive and raises nothing; when the script
\* ends every root has been handled, in the order of lambdas, the absent ones
\* skipped and each present one with a finished archive
MissingRootTolerance ==
    InBulk =>
        /\ \A r \in Roots : <<r>> \notin fsdirs =>
              /\ zip_path(r) \notin DOMAIN zips
              /\ zip_path(r) \notin DOMAIN fs
              /\ ~Printed("creating", r)
        /\ exc => <<lambda_dir>> \in fsdirs
        /\ pc = "done" =>
              LET Handled(e) == e[1] \in {"skipping", "creating"}
                  order == SelectSeq(log, Handled)
              IN  /\ Len(order) = Len(lambdas)
                  /\ \A n \in 1..Len(lambdas) :
                        /\ order[n][2] = lambdas[n]
                        /\ order[n][1] = "skipping" <=> <<lambdas[n]>> \notin fsdirs
                  /\ \A r \in Roots : <<r>> \in fsdirs =>
                        /\ zip_path(r) \in DOMAIN zips
                        /\ zip_path(r) \notin zipf
                        /\ Printed("created", r)

\* the script ended; the first root was absent and a later one was packaged
MissingRootWitness ==
    /\ pc = "done"
    /\ <<lambdas[1]>> \notin fsdirs
    /\ <<lambdas[2]>> \in fsdirs
    /\ zips[zip_path(lambdas[2])] # EmptyBag

\* the directories the Bulk Packager is to leave out, as the specification lists them
ExcludedDirectory(d) ==
    \/ d[Len(d)] \in {S_git, S_pycache}
    \/ Len(d) >= 2 /\ d[Len(d)] = S_cache /\ d[Len(d) - 1] = S_node_modules

\* C3: the finished archive of a root holds exactly one entry for each file below
\* the root that does not end in .zip and has no excluded directory above it,
\* named by its path relative to the root
BulkExactness ==
    \A r \in Roots : Printed("created", r) =>
        zips[zip_path(r)] =
            SetToBag({ [src |-> p, arc |-> RelPath(p, <<r>>), data |-> fs[p]] :
                       p \in {q \in FilesBelow(r) :
                                /\ ~EndsWith(q[Len(q)], S_zip)
                                /\ \A a \in Ancestors(q) : Len(a) >= 2 => ~ExcludedDirectory(a)} })

\* C4: a directory named .git or __pycache__ below a root is never listed by the
\* walk, nor is any directory beneath it, and no entry comes from beneath it
BulkPruning ==
    InBulk =>
        /\ \A d \in visited : \A n \in 2..Len(d) : d[n] \notin {S_git, S_pycache}
        /\ \A z \in DOMAIN zips : \A e \in Entries(z) :
              \A n \in 2..(Len(e.src) - 1) : e.src[n] \notin {S_git, S_pycache}

\* C5: no entry comes from beneath a directory .cache that lies directly in a
\* directory node_modules
NodeModulesCacheSkipped ==
    InBulk =>
        \A z \in DOMAIN zips : \A e \in Entries(z) :
            \A n \in 2..(Len(e.src) - 2) :
                ~(e.src[n] = S_node_modules /\ e.src[n + 1] = S_cache)

IsSample(r) == {SubSeq(p, 2, Len(p)) : p \in FilesBelow(r)} = SampleRel

ArcNames(z) == {e.arc : e \in Entries(z)}

S_nm_lodash_index ==
    <<"n","o","d","e","_","m","o","d","u","l","e","s","/","l","o","d","a","s","h","/",
      "i","n","d","e","x",".","j","s">>
S_nm_aws_index ==
    <<"n","o","d","e","_","m","o","d","u","l","e","s","/","a","w","s","-","s","d","k","/",
      "i","n","d","e","x",".","j","s">>

\* C6 as stated: the archive of the example tree has the entry names a.js and
\* node_modules/lodash/index.js and no other
SampleAsStated ==
    \A r \in Roots : IsSample(r) /\ Printed("created", r) =>
        ArcNames(zip_path(r)) = {S_a_js, S_nm_lodash_index}

\* C6 as amended: the Bulk Packager's archive of the example tree has the entry
\* names a.js, node_modules/aws-sdk/index.js and node_modules/lodash/index.js
SampleBulk ==
    \A r \in Roots : IsSample(r) /\ Printed("created", r) =>
        /\ ArcNames(zip_path(r)) = {S_a_js, S_nm_aws_index, S_nm_lodash_index}
        /\ \A e \in Entries(zip_path(r)) : CopiesIn(e, zips[zip_path(r)]) = 1

SampleWitness ==
    \E r \in Roots : IsSample(r) /\ Printed("created", r)

\* the rule of the Selective Packager on directories, as the specification words it
SelExcluded(d) ==
    \E s \in {S_aws_sdk, S_bin, S_test, S_tests, S_example, S_examples, S_docs, S_cache} :
        Contains(s, PathStr(d))

\* C7: function.zip holds exactly the main files that are present, under their
\* names, and the files of node_modules whose directory path has none of the
\* substrings and whose name has none of the suffixes and no leading dot, under
\* their walked paths; nothing is raised
SelExactness ==
    InSel =>
        /\ ~exc
        /\ pc = "s_done" =>
              zips[function_zip] =
                  SetToBag(
                      { [src |-> <<f>>, arc |-> f, data |-> fs[<<f>>]] :
                          f \in {g \in {S_index_js, S_package_json} : <<g>> \in DOMAIN fs} }
                      \cup
                      { [src |-> p, arc |-> PathStr(p), data |-> fs[p]] :
                          p \in {q \in DOMAIN fs :
                                   /\ Len(q) >= 2 /\ q[1] = S_node_modules
                                   /\ ~SelExcluded(SubSeq(q, 1, Len(q) - 1))
                                   /\ \A x \in {S_md, S_txt, S_map, S_ts, S_yml, S_yaml} :
                                         ~EndsWith(q[Len(q)], x)
                                   /\ q[Len(q)][1] # "."} })

\* a run ended without index.js, with a dependency kept and others left out
SelExactnessWitness ==
    /\ pc = "s_done"
    /\ <<S_index_js>> \notin DOMAIN fs
    /\ <<S_node_modules, S_lodash, S_index_js>> \in DOMAIN fs
    /\ \E p \in DOMAIN fs : Len(p) >= 2 /\ [src |-> p, arc |-> PathStr(p), data |-> 1] \notin Entries(function_zip)

\* C8: a second run on the same tree leaves function.zip as the first run did;
\* no function.zip is on disk when the new one is opened, and nothing of an
\* older archive is in the result
Idempotence ==
    InSel =>
        /\ pc = "s_done" /\ run >= 2 => zips[function_zip] = done1
        /\ pc = "s_open" => function_zip \notin DOMAIN fs /\ function_zip \notin DOMAIN zips
        /\ pc = "s_done" =>
              \A e \in Entries(function_zip) : e.src \in DOMAIN fs /\ e.data = fs[e.src]

\* the second run ended, on a tree that gives an archive with entries
IdempotenceWitness ==
    /\ pc = "s_done"
    /\ run = 2
    /\ done1 # EmptyBag
    /\ zips[function_zip] # EmptyBag

\* C9: at most one archive is open, and none while a root is examined; once
\* zipf.write has raised, the script has stopped, the archive is closed, the
\* archive file of the root is left as far as it was written, no later root
\* has been touched and the final message has not been printed
IOFailure ==
    InBulk =>
        /\ Cardinality(zipf) <= 1
        /\ pc \in {"check", "open"} => zipf = {}
        /\ exc =>
              /\ pc = "failed"
              /\ zipf = {}
              /\ zip_path(lambda_dir) \in DOMAIN fs
              /\ zip_path(lambda_dir) \in DOMAIN zips
              /\ ~Printed("created", lambda_dir)
              /\ ~Printed("all", <<>>)
              /\ \A n \in (i + 1)..Len(lambdas) :
                    /\ zip_path(lambdas[n]) \notin DOMAIN zips
                    /\ \A ev \in {"skipping", "creating", "created"} : ~Printed(ev, lambdas[n])

\* a write failed after another had succeeded, and a later root is present
IOFailureWitness ==
    /\ exc
    /\ pc = "failed"
    /\ zips[zip_path(lambda_dir)] # EmptyBag
    /\ i < Len(lambdas)
    /\ <<lambdas[i + 1]>> \in fsdirs

\* C10 as stated: the walk of node_modules lists no directory that lies beneath
\* a directory the rule excludes
SelPruned ==
    InSel => \A d \in visited : \A a \in Ancestors(d) : ~SelExcluded(a)

\* C10 as amended: no entry comes from a directory the rule excludes, nor from
\* any depth beneath one; the walk itself lists every directory of node_modules,
\* those beneath an excluded directory too
SelExcludedEmpty ==
    InSel =>
        /\ function_zip \in zipf \/ pc = "s_done" =>
              \A e \in Entries(function_zip) : \A a \in Ancestors(e.src) : ~SelExcluded(a)
        /\ pc \in {"s_end", "s_done"} =>
              visited = {d \in fsdirs : d[1] = S_node_modules}

\* a run ended that walked a directory beneath an excluded one that holds a file
SelExcludedWitness ==
    /\ pc = "s_done"
    /\ <<S_node_modules, S_aws_sdk, S_lib>> \in visited
    /\ <<S_node_modules, S_aws_sdk, S_lib, S_index_js>> \in DOMAIN fs

====
